---------------------------- MODULE Spec2Model ----------------------------
(***************************************************************************)
(* Model of support/bin/hiosctl.py: the command-line dispatcher and its    *)
(* three operations store-s3 (sync of FHIR bundles to S3),                 *)
(* ingest-healthlake (one import job per listed object) and doctor         *)
(* (environment and reachability check).                                   *)
(*                                                                         *)
(* Text is modelled as sequences of one-character strings, so that         *)
(* str.endswith, str.replace, slicing and concatenation are computed the   *)
(* way the script computes them.  The remote services (S3, HealthLake) are *)
(* the environment: the bucket is a set of keys, and every SDK call        *)
(* returns one of the results the script distinguishes, chosen             *)
(* nondeterministically among those the bucket's contents allow.           *)
(***************************************************************************)
EXTENDS Integers, Sequences, FiniteSets, TLC

VARIABLES
    env,        \* names of the environment variables that are set
    sep,        \* os.sep of the host
    files,      \* the local tree in os.walk order: records [dir, name]
    store,      \* keys of the objects in the bucket
    argv,       \* sys.argv of the running invocation
    op,         \* the function __main__ called ("" when it called none)
    pc,         \* position of the running invocation
    idx,        \* loop position in store_s3 / ingest_healthlake
    listing,    \* response['Contents'] keys of the running ingest
    calls,      \* SDK calls made by the running invocation, in order
    outcomes,   \* messages printed per file / key / check, in order
    missing,    \* missing_env_vars as printed by doctor
    exitCode,   \* exit status of the invocation (NoExit while running)
    prev,       \* summary of the invocation that ran before this one
    jobs        \* <<key, JobName>> of every import request of earlier runs

vars == <<env, sep, files, store, argv, op, pc, idx, listing, calls, outcomes,
          missing, exitCode, prev, jobs>>

----------------------------------------------------------------------------
(* Bounds *)

MaxKeyLen == 58     \* length of the longest object key in the bucket
MaxFiles == 2       \* files in the local tree
MaxInitKeys == 1    \* objects in the bucket before the first invocation

\* exitCode while the process is still running
NoExit == 0 - 1

----------------------------------------------------------------------------
(* Text helpers *)

\* str.endswith(suffix)
EndsWith(s, suffix) ==
    /\ Len(s) >= Len(suffix)
    /\ SubSeq(s, Len(s) - Len(suffix) + 1, Len(s)) = suffix

\* str.replace(old, new) for one-character old and new
Replace(s, old, new) == [i \in 1..Len(s) |-> IF s[i] = old THEN new ELSE s[i]]

\* s[:n]
Prefix(s, n) == SubSeq(s, 1, IF Len(s) < n THEN Len(s) ELSE n)

\* the string made of n copies of character c
Rep(c, n) == [i \in 1..n |-> c]

RECURSIVE JoinWith(_, _)
\* separator.join(parts)
JoinWith(parts, separator) ==
    IF parts = <<>> THEN <<>>
    ELSE IF Len(parts) = 1 THEN parts[1]
    ELSE parts[1] \o <<separator>> \o JoinWith(Tail(parts), separator)

----------------------------------------------------------------------------
(* The local tree, the bucket and the command lines considered *)

DotJson == <<".", "j", "s", "o", "n">>

FileA == [dir |-> <<>>, name |-> <<"a">> \o DotJson]
FileC == [dir |-> <<>>, name |-> <<"c", ".", "t", "x", "t">>]
FileD == [dir |-> << <<"s">> >>, name |-> <<"d">> \o DotJson]

\* os.walk is top-down: the files of the root, then those of its subdirectories
FileUniverse == <<FileA, FileC, FileD>>

LongKey == Rep("k", MaxKeyLen)

\* every key the bucket may hold, in the (lexicographic) order S3 lists them:
\* the keys of the local bundles and one long key that is no bundle's
KeyUniverse == << <<"a">> \o DotJson, LongKey, <<"s", "/", "d">> \o DotJson >>

Range(s) == {s[i] : i \in 1..Len(s)}

EnvVars == <<"AWS_ACCESS_KEY_ID", "AWS_SECRET_ACCESS_KEY", "AWS_REGION">>

Bucket == "bkt"
Datastore == "ds"
RoleArn == "arn"
Directories == {"bundles"}

Script == "hiosctl.py"

ArgvChoices ==
    { <<Script>>,
      <<Script, "store-s3", "--bucket-name", Bucket, "--path", "bundles">>,
      <<Script, "store-s3", "--bucket-name", Bucket, "--path", "nodir">>,
      <<Script, "store-s3", "--path", "bundles", "--bucket-name", Bucket>>,
      <<Script, "store-s3", "--bucket-name", Bucket>>,
      <<Script, "ingest-healthlake", "--bucket-name", Bucket,
        "--datastore-id", Datastore, "--darole-arn", RoleArn>>,
      <<Script, "ingest-healthlake", "--bucket-name", Bucket,
        "--datastore-id", Datastore, "--access-role-arn", RoleArn>>,
      <<Script, "doctor", "--bucket-name", Bucket, "--datastore-id", Datastore>>,
      <<Script, "doctor", "--bucket-name", Bucket>>,
      <<Script, "sync-store", "--bucket-name", Bucket, "--path", "bundles">> }

\* sys.argv[k]
Arg(a, k) == a[k + 1]

\* os.path.isdir
IsDir(path) == path \in Directories

----------------------------------------------------------------------------
(* Initial state: nothing has run yet *)

Init ==
    /\ env \in SUBSET Range(EnvVars)
    /\ sep \in {"/", "\\"}
    /\ \E S \in SUBSET Range(FileUniverse) :
          /\ Cardinality(S) <= MaxFiles
          /\ files = SelectSeq(FileUniverse, LAMBDA f : f \in S)
    /\ store \in {K \in SUBSET Range(KeyUniverse) : Cardinality(K) <= MaxInitKeys}
    /\ argv = <<>>
    /\ op = ""
    /\ pc = "idle"
    /\ idx = 1
    /\ listing = <<>>
    /\ calls = <<>>
    /\ outcomes = <<>>
    /\ missing = <<>>
    /\ exitCode = NoExit
    /\ prev = [op |-> "", exitCode |-> NoExit, clean |-> FALSE]
    /\ jobs = {}

----------------------------------------------------------------------------
(* Shared pieces *)

\* one SDK call, as logged in calls
Call(api, item, key, arg, result) ==
    [op |-> api, item |-> item, key |-> key, arg |-> arg, result |-> result]

\* one printed message, as logged in outcomes
Out(what, item, key, kind, reason) ==
    [what |-> what, item |-> item, key |-> key, kind |-> kind, reason |-> reason]

\* the process ends: sys.exit(code), falling off the end of the script
\* (code 0), or an uncaught exception (traceback, code 1)
Exit(code) ==
    /\ pc' = "exited"
    /\ exitCode' = code

\* a walk that forgets the extension test
IsBundleAny(filename) == TRUE

\* filename.endswith('.json')
IsBundle(filename) == EndsWith(filename, DotJson)

\* os.path.join(root, filename) taken relative to the walked directory
RelPath(f) == JoinWith(f.dir \o <<f.name>>, sep)

\* os.path.relpath(file_path, synthea_fhir_bundles).replace("\\", "/")
ObjectName(f) == Replace(RelPath(f), "\\", "/")

BundleFiles == SelectSeq(files, LAMBDA f : IsBundle(f.name))

\* the finished invocation was a store-s3 that ran to the end of the walk and
\* printed "uploaded" or "already exists" for every bundle file
SyncClean ==
    /\ op = "store_s3"
    /\ pc = "exited"
    /\ exitCode = 0
    /\ Len(outcomes) = Len(BundleFiles)
    /\ \A i \in 1..Len(outcomes) : outcomes[i].kind \in {"Uploaded", "Skipped"}

----------------------------------------------------------------------------
(* __main__ : a new invocation parses its command line *)

Main(a) ==
    /\ pc \in {"idle", "exited"}
    /\ argv' = a
    /\ prev' = [op |-> op, exitCode |-> exitCode, clean |-> SyncClean]
    /\ idx' = 1
    /\ listing' = <<>>
    /\ calls' = <<>>
    /\ outcomes' = <<>>
    /\ missing' = <<>>
    /\ IF Len(a) < 2 THEN Exit(1) /\ op' = ""
       ELSE IF Arg(a, 1) = "store-s3" THEN
            IF Len(a) # 6 \/ Arg(a, 2) # "--bucket-name" \/ Arg(a, 4) # "--path"
            THEN Exit(1) /\ op' = ""
            ELSE IF ~IsDir(Arg(a, 5)) THEN Exit(1) /\ op' = ""
            ELSE pc' = "store_s3" /\ exitCode' = NoExit /\ op' = "store_s3"
       ELSE IF Arg(a, 1) = "ingest-healthlake" THEN
            IF Len(a) # 8 \/ Arg(a, 2) # "--bucket-name"
               \/ Arg(a, 4) # "--datastore-id" \/ Arg(a, 6) # "--darole-arn"
            THEN Exit(1) /\ op' = ""
            ELSE pc' = "ingest" /\ exitCode' = NoExit /\ op' = "ingest_healthlake"
       ELSE IF Arg(a, 1) = "doctor" THEN
            IF Len(a) # 6 \/ Arg(a, 2) # "--bucket-name"
               \/ Arg(a, 4) # "--datastore-id"
            THEN Exit(1) /\ op' = ""
            ELSE pc' = "doctor" /\ exitCode' = NoExit /\ op' = "doctor"
       ELSE Exit(1) /\ op' = ""
    /\ UNCHANGED <<env, sep, files, store, jobs>>

----------------------------------------------------------------------------
(* store-s3 *)

\* what head_object can answer for a key: 200 when the object is there, 404
\* when it is not, a ClientError with another code (403, ...), or an exception
\* that is no ClientError (NoCredentialsError, EndpointConnectionError, ...)
HeadResults(key) ==
    (IF key \in store THEN {"200"} ELSE {"404"}) \cup {"ClientError", "BotoCoreError"}

\* what upload_file can do
PutResults ==
    {"ok", "FileNotFoundError", "NoCredentialsError", "PartialCredentialsError",
     "Exception"}

\* every ClientError of head_object taken for "no such object"
IsNotFoundAny(h) == h \in {"404", "ClientError"}

\* e.response['Error']['Code'] == '404'
IsNotFound(h) == h = "404"

\* the except clause that takes an exception of upload_file
PutReason(p) ==
    IF p = "FileNotFoundError" THEN "NotFound"
    ELSE IF p = "NoCredentialsError" THEN "Unauthenticated"
    ELSE IF p = "PartialCredentialsError" THEN "Incomplete"
    ELSE "Error"

\* upload_to_s3 for the file at position item of the walk, given the answers
\* h of head_object and p of upload_file: the calls made, the message printed,
\* the bucket afterwards, and whether an exception leaves the function
upload_to_s3(item, object_name, h, p) ==
    LET head == Call("head_object", item, object_name, <<>>, h)
        put  == Call("upload_file", item, object_name, "application/json", p)
    IN  IF h = "200" THEN
            [calls |-> <<head>>,
             printed |-> <<Out("file", item, object_name, "Skipped", "")>>,
             store |-> store, raised |-> FALSE]
        ELSE IF h = "BotoCoreError" THEN
            [calls |-> <<head>>, printed |-> <<>>, store |-> store, raised |-> TRUE]
        ELSE IF IsNotFound(h) THEN
            IF p = "ok" THEN
                [calls |-> <<head, put>>,
                 printed |-> <<Out("file", item, object_name, "Uploaded", "")>>,
                 store |-> store \cup {object_name}, raised |-> FALSE]
            ELSE
                [calls |-> <<head, put>>,
                 printed |-> <<Out("file", item, object_name, "Failed", PutReason(p))>>,
                 store |-> store, raised |-> FALSE]
        ELSE
            [calls |-> <<head>>,
             printed |-> <<Out("file", item, object_name, "Failed", "ClientError")>>,
             store |-> store, raised |-> FALSE]

\* one iteration of the walk in store_s3
StoreS3Step ==
    /\ pc = "store_s3"
    /\ idx <= Len(files)
    /\ LET f == files[idx] IN
       IF ~IsBundle(f.name) THEN
            /\ idx' = idx + 1
            /\ UNCHANGED <<store, calls, outcomes, pc, exitCode>>
       ELSE \E h \in HeadResults(ObjectName(f)) :
            \E p \in (IF IsNotFound(h) THEN PutResults ELSE {"none"}) :
              LET r == upload_to_s3(idx, ObjectName(f), h, p) IN
                /\ calls' = calls \o r.calls
                /\ outcomes' = outcomes \o r.printed
                /\ store' = r.store
                /\ IF r.raised
                   THEN Exit(1) /\ idx' = idx
                   ELSE idx' = idx + 1 /\ UNCHANGED <<pc, exitCode>>
    /\ UNCHANGED <<env, sep, files, argv, op, listing, missing, prev, jobs>>

\* the walk is over: store_s3 returns and the script ends
StoreS3Return ==
    /\ pc = "store_s3"
    /\ idx > Len(files)
    /\ Exit(0)
    /\ UNCHANGED <<env, sep, files, store, argv, op, idx, listing, calls, outcomes,
                   missing, prev, jobs>>

----------------------------------------------------------------------------
(* ingest-healthlake *)

IngestPrefix == <<"I", "n", "g", "e", "s", "t", "-">>

\* the slice kept of the object name, and the service's limit on a job name
JobNameKeep == 55
JobNameLimit == 64

\* a job name built from the whole object name
JobNameUncut(object_name) == IngestPrefix \o object_name

\* f'Ingest-{object_name[:55]}'
JobName(object_name) == IngestPrefix \o Prefix(object_name, JobNameKeep)

\* f's3://{bucket_name}/{object_name}'
S3Uri(bucket_name, object_name) == <<"s3://", bucket_name, "/">> \o object_name

\* f's3://{bucket_name}/healthlake-start_fhir_import_job-output/'
OutputUri(bucket_name) ==
    <<"s3://", bucket_name, "/", "healthlake-start_fhir_import_job-output/">>

\* the keyword arguments of start_fhir_import_job
ImportJobRequest(bucket_name, datastore_id, role_arn, object_name) ==
    [DatastoreId |-> datastore_id,
     S3Uri |-> S3Uri(bucket_name, object_name),
     JobName |-> JobName(object_name),
     DataAccessRoleArn |-> role_arn,
     OutputS3Uri |-> OutputUri(bucket_name),
     KmsKeyId |-> ""]

\* response['Contents'] of list_objects_v2: the keys of the bucket in order
Contents == SelectSeq(KeyUniverse, LAMBDA k : k \in store)

\* what the start of ingest_healthlake can meet: session.client('healthlake')
\* raises NoRegionError outside the try block when no region is configured
\* (AWS_REGION unset and none in the SDK's own configuration); otherwise
\* list_objects_v2 answers, or raises one of the exceptions the handlers name
ListResults ==
    {"ok", "NoCredentialsError", "PartialCredentialsError", "Exception"}
        \cup (IF "AWS_REGION" \in env THEN {} ELSE {"NoRegionError"})

\* what start_fhir_import_job can do
StartResults ==
    {"ok", "ClientError", "NoCredentialsError", "PartialCredentialsError",
     "Exception"}

\* the handler of the outer try block that takes an exception
OuterReason(r) ==
    IF r = "NoCredentialsError" THEN "Unauthenticated"
    ELSE IF r = "PartialCredentialsError" THEN "Incomplete"
    ELSE "Error"

\* the exceptions of start_fhir_import_job the inner try block takes
InnerCatches(r) == r = "ClientError"

\* the clients are made and the bucket is listed
IngestList ==
    /\ pc = "ingest"
    /\ \E r \in ListResults :
         IF r = "NoRegionError" THEN
            /\ Exit(1)
            /\ UNCHANGED <<listing, calls, outcomes>>
         ELSE
            /\ calls' = Append(calls, Call("list_objects_v2", 0, <<>>, Arg(argv, 3), r))
            /\ IF r = "ok" THEN
                  /\ listing' = Contents
                  /\ IF Contents = <<>>
                     THEN /\ outcomes' = Append(outcomes,
                                 Out("listing", 0, <<>>, "Empty", ""))
                          /\ Exit(0)
                     ELSE /\ pc' = "ingest_loop"
                          /\ UNCHANGED <<outcomes, exitCode>>
               ELSE
                  /\ outcomes' = Append(outcomes,
                        Out("listing", 0, <<>>, "Failed", OuterReason(r)))
                  /\ Exit(0)
                  /\ UNCHANGED listing
    /\ UNCHANGED <<env, sep, files, store, argv, op, idx, missing, prev, jobs>>

\* one iteration of the loop over response['Contents']
IngestStep ==
    /\ pc = "ingest_loop"
    /\ idx <= Len(listing)
    /\ \E r \in StartResults :
         LET object_name == listing[idx]
             request == ImportJobRequest(Arg(argv, 3), Arg(argv, 5), Arg(argv, 7),
                                         object_name)
         IN  /\ calls' = Append(calls,
                    Call("start_fhir_import_job", idx, object_name, request, r))
             /\ jobs' = jobs \cup {<<object_name, request.JobName>>}
             /\ IF r = "ok" THEN
                    /\ outcomes' = Append(outcomes,
                          Out("key", idx, object_name, "Started", ""))
                    /\ idx' = idx + 1
                    /\ UNCHANGED <<pc, exitCode>>
                ELSE IF InnerCatches(r) THEN
                    /\ outcomes' = Append(outcomes,
                          Out("key", idx, object_name, "Failed", "ClientError"))
                    /\ idx' = idx + 1
                    /\ UNCHANGED <<pc, exitCode>>
                ELSE
                    /\ outcomes' = Append(outcomes,
                          Out("listing", 0, <<>>, "Failed", OuterReason(r)))
                    /\ Exit(0)
                    /\ idx' = idx
    /\ UNCHANGED <<env, sep, files, store, argv, op, listing, missing, prev>>

\* the loop is over: ingest_healthlake returns and the script ends
IngestReturn ==
    /\ pc = "ingest_loop"
    /\ idx > Len(listing)
    /\ Exit(0)
    /\ UNCHANGED <<env, sep, files, store, argv, op, idx, listing, calls, outcomes,
                   missing, prev, jobs>>

----------------------------------------------------------------------------
(* doctor *)

\* a check that forgets AWS_REGION
MissingKeysOnly == SelectSeq(SubSeq(EnvVars, 1, 2), LAMBDA v : v \notin env)

\* [var for var in required_env_vars if os.getenv(var) is None]
MissingEnvVars == SelectSeq(EnvVars, LAMBDA v : v \notin env)

\* what head_bucket and describe_fhir_datastore can do: succeed, raise a
\* ClientError, or raise an exception that is no ClientError
CheckResults == {"ok", "ClientError", "BotoCoreError"}

\* the environment variables are checked
DoctorEnv ==
    /\ pc = "doctor"
    /\ missing' = MissingEnvVars
    /\ IF MissingEnvVars # <<>>
       THEN /\ outcomes' = Append(outcomes, Out("env", 0, <<>>, "Failed", ""))
            /\ Exit(1)
       ELSE /\ outcomes' = Append(outcomes, Out("env", 0, <<>>, "Passed", ""))
            /\ pc' = "doctor_bucket"
            /\ UNCHANGED exitCode
    /\ UNCHANGED <<env, sep, files, store, argv, op, idx, listing, calls, prev, jobs>>

\* a first try block that records the failure and goes on to the datastore
DoctorBucketContinue ==
    /\ pc = "doctor_bucket"
    /\ \E r \in CheckResults :
         /\ calls' = Append(calls, Call("head_bucket", 0, <<>>, Arg(argv, 3), r))
         /\ outcomes' = Append(outcomes,
               Out("bucket", 0, <<>>, IF r = "ok" THEN "Passed" ELSE "Failed", ""))
         /\ pc' = "doctor_datastore"
         /\ UNCHANGED exitCode
    /\ UNCHANGED <<env, sep, files, store, argv, op, idx, listing, missing, prev, jobs>>

\* the first try block: head_bucket
DoctorBucket ==
    /\ pc = "doctor_bucket"
    /\ \E r \in CheckResults :
         /\ calls' = Append(calls, Call("head_bucket", 0, <<>>, Arg(argv, 3), r))
         /\ IF r = "ok" THEN
                /\ outcomes' = Append(outcomes, Out("bucket", 0, <<>>, "Passed", ""))
                /\ pc' = "doctor_datastore"
                /\ UNCHANGED exitCode
            ELSE IF r = "ClientError" THEN
                /\ outcomes' = Append(outcomes,
                      Out("bucket", 0, <<>>, "Failed", "ClientError"))
                /\ Exit(1)
            ELSE
                /\ Exit(1)
                /\ UNCHANGED outcomes
    /\ UNCHANGED <<env, sep, files, store, argv, op, idx, listing, missing, prev, jobs>>

\* the second try block: describe_fhir_datastore
DoctorDatastore ==
    /\ pc = "doctor_datastore"
    /\ \E r \in CheckResults :
         /\ calls' = Append(calls,
                Call("describe_fhir_datastore", 0, <<>>, Arg(argv, 5), r))
         /\ IF r = "ok" THEN
                /\ outcomes' = Append(outcomes,
                      Out("datastore", 0, <<>>, "Passed", ""))
                /\ Exit(0)
            ELSE IF r = "ClientError" THEN
                /\ outcomes' = Append(outcomes,
                      Out("datastore", 0, <<>>, "Failed", "ClientError"))
                /\ Exit(1)
            ELSE
                /\ Exit(1)
                /\ UNCHANGED outcomes
    /\ UNCHANGED <<env, sep, files, store, argv, op, idx, listing, missing, prev, jobs>>

----------------------------------------------------------------------------

Next ==
    \/ \E a \in ArgvChoices : Main(a)
    \/ StoreS3Step
    \/ StoreS3Return
    \/ IngestList
    \/ IngestStep
    \/ IngestReturn
    \/ DoctorEnv
    \/ DoctorBucket
    \/ DoctorDatastore

Spec == Init /\ [][Next]_vars

----------------------------------------------------------------------------
(* Properties *)

CallIdx(api) == {i \in 1..Len(calls) : calls[i].op = api}

Exited == pc = "exited"

\* C2: in doctor, if any of the three credential variables is unset, the run
\* makes no remote call at all, ends with exit code 1, and the variables it
\* reports missing are exactly the unset ones.
C2_DoctorStopsOnMissingEnv ==
    (op = "doctor" /\ Range(EnvVars) \ env # {}) =>
        /\ calls = <<>>
        /\ pc \in {"doctor", "exited"}
        /\ Exited => /\ exitCode = 1
                     /\ Range(missing) = Range(EnvVars) \ env
                     /\ Len(missing) = Cardinality(Range(EnvVars) \ env)

C2_Witness ==
    /\ op = "doctor"
    /\ Exited
    /\ env = {"AWS_SECRET_ACCESS_KEY"}
    /\ missing = <<"AWS_ACCESS_KEY_ID", "AWS_REGION">>
    /\ exitCode = 1

Faulted(c) == c.result \notin {"ok", "200", "404"}

\* C3 as stated: a sync run that directly follows a sync run (one that walked
\* the whole tree and ended with exit code 0) issues no put, and every bundle
\* file's outcome in it is Skipped.
C3_SecondSyncUploadsNothing ==
    (op = "store_s3" /\ prev.op = "store_s3" /\ prev.exitCode = 0) =>
        /\ CallIdx("upload_file") = {}
        /\ \A i \in 1..Len(outcomes) : outcomes[i].kind = "Skipped"
        /\ Exited => Len(outcomes) = Len(BundleFiles)

\* C3 amended: a sync run that directly follows a sync run in which every
\* bundle file ended Uploaded or Skipped issues no put: no existence check in
\* it answers "absent", every file whose existence check succeeds is Skipped,
\* and a file is Failed only because its existence check itself failed.
C3_SyncAfterCleanSyncUploadsNothing ==
    (op = "store_s3" /\ prev.op = "store_s3" /\ prev.clean) =>
        /\ CallIdx("upload_file") = {}
        /\ \A i \in CallIdx("head_object") :
              /\ calls[i].result # "404"
              /\ calls[i].result = "200" =>
                    \E j \in 1..Len(outcomes) :
                       /\ outcomes[j].item = calls[i].item
                       /\ outcomes[j].kind = "Skipped"
        /\ \A j \in 1..Len(outcomes) :
              \/ outcomes[j].kind = "Skipped"
              \/ outcomes[j].kind = "Failed" /\ outcomes[j].reason = "ClientError"

\* the second run skips two bundle files, at least one of which the first
\* run uploaded (the bucket held at most MaxInitKeys objects before it)
C3_Witness ==
    /\ op = "store_s3"
    /\ prev.op = "store_s3"
    /\ prev.clean
    /\ Exited
    /\ Len(BundleFiles) > MaxInitKeys
    /\ Len(outcomes) = Len(BundleFiles)
    /\ \A j \in 1..Len(outcomes) : outcomes[j].kind = "Skipped"

\* C9: in a sync run a put is issued only for a scanned file whose name ends
\* in .json and whose existence check, made just before for the same file and
\* key, answered "absent"; at most one existence check and one put are made
\* per file.
C9_PutOnlyForAbsentBundles ==
    op = "store_s3" =>
        /\ \A i \in CallIdx("upload_file") :
              /\ calls[i].item \in 1..Len(files)
              /\ EndsWith(files[calls[i].item].name, DotJson)
              /\ calls[i].key = ObjectName(files[calls[i].item])
              /\ i > 1
              /\ calls[i - 1].op = "head_object"
              /\ calls[i - 1].item = calls[i].item
              /\ calls[i - 1].key = calls[i].key
              /\ calls[i - 1].result = "404"
              /\ \A j \in CallIdx("upload_file") : calls[j].item = calls[i].item => j = i
        /\ \A i, j \in CallIdx("head_object") : calls[j].item = calls[i].item => j = i
        /\ \A i \in 1..Len(calls) : calls[i].op \in {"head_object", "upload_file"}

\* a tree with a bundle and c.txt is walked to its end: the bundle is
\* uploaded, nothing is asked about c.txt
C9_Witness ==
    /\ op = "store_s3"
    /\ Exited
    /\ FileC \in Range(files)
    /\ idx > Len(files)
    /\ Cardinality(CallIdx("head_object")) = 1
    /\ \E i \in CallIdx("upload_file") : calls[i].result = "ok"

\* C10: the job name of every import request is "Ingest-" followed by a
\* prefix of the object key, is at most 64 characters long, and is the same
\* for the same key in every request of every run.
C10_JobNameBounded ==
    /\ \A i \in CallIdx("start_fhir_import_job") :
          LET name == calls[i].arg.JobName
              key  == calls[i].key
          IN  /\ Len(name) <= JobNameLimit
              /\ Len(name) >= Len(IngestPrefix)
              /\ SubSeq(name, 1, Len(IngestPrefix)) = IngestPrefix
              /\ Len(name) - Len(IngestPrefix) <= Len(key)
              /\ SubSeq(name, Len(IngestPrefix) + 1, Len(name))
                    = SubSeq(key, 1, Len(name) - Len(IngestPrefix))
              /\ <<key, name>> \in jobs
    /\ \A x, y \in jobs : x[1] = y[1] => x[2] = y[2]

\* a key too long to fit after the prefix is submitted in a second ingest run
C10_Witness ==
    /\ op = "ingest_healthlake"
    /\ prev.op = "ingest_healthlake"
    /\ \E i \in CallIdx("start_fhir_import_job") :
          /\ Len(IngestPrefix) + Len(calls[i].key) > JobNameLimit
          /\ calls[i].result = "ok"

\* C4: in a sync run every bundle file of the walk is handled, and a file
\* whose existence check or put ended in an error has outcome Failed: no fault
\* on one file keeps a later file from being processed.
C4_SyncFaultNeverAbortsBatch ==
    (op = "store_s3" /\ Exited) =>
        \A n \in 1..Len(files) :
            EndsWith(files[n].name, DotJson) =>
                /\ \E i \in CallIdx("head_object") : calls[i].item = n
                /\ \E j \in 1..Len(outcomes) :
                      /\ outcomes[j].item = n
                      /\ (\E i \in 1..Len(calls) :
                              calls[i].item = n /\ Faulted(calls[i]))
                            => outcomes[j].kind = "Failed"

\* C5: in an ingest run whose listing succeeded, a submission is attempted for
\* every listed key, and a key whose submission failed has outcome Failed: no
\* failed submission keeps a later key from being submitted.
C5_IngestFaultNeverStopsBatch ==
    (op = "ingest_healthlake" /\ Exited) =>
        \A n \in 1..Len(listing) :
            /\ \E i \in CallIdx("start_fhir_import_job") : calls[i].item = n
            /\ \A i \in CallIdx("start_fhir_import_job") :
                  (calls[i].item = n /\ Faulted(calls[i])) =>
                      \E j \in 1..Len(outcomes) :
                         /\ outcomes[j].what = "key"
                         /\ outcomes[j].key = listing[n]
                         /\ outcomes[j].kind = "Failed"

\* C6: an ingest run whose listing succeeded issues exactly one import request
\* per object of the bucket, with the S3 URI of that object as its source; an
\* empty listing gives no request and the "nothing to ingest" outcome.
C6_OneRequestPerListedKey ==
    (op = "ingest_healthlake" /\ Exited
        /\ \E i \in CallIdx("list_objects_v2") : calls[i].result = "ok") =>
        /\ \A k \in store :
              /\ Cardinality({i \in CallIdx("start_fhir_import_job") :
                                 calls[i].key = k}) = 1
              /\ \A i \in CallIdx("start_fhir_import_job") :
                    calls[i].key = k => calls[i].arg.S3Uri = S3Uri(Arg(argv, 3), k)
        /\ \A i \in CallIdx("start_fhir_import_job") : calls[i].key \in store
        /\ store = {} =>
              /\ CallIdx("start_fhir_import_job") = {}
              /\ \E j \in 1..Len(outcomes) : outcomes[j].kind = "Empty"

\* C7: an ingest run whose listing call failed submits no import job and ends
\* with a non-zero exit code; an ingest run whose listing call succeeded ends
\* with exit code 0.
C7_ListingFailureIsFatal ==
    (op = "ingest_healthlake" /\ Exited) =>
        \A i \in CallIdx("list_objects_v2") :
            IF calls[i].result = "ok"
            THEN exitCode = 0
            ELSE CallIdx("start_fhir_import_job") = {} /\ exitCode # 0

\* the command line is rejected by __main__, or a credential variable is unset
ConfigError == op = "" \/ env # Range(EnvVars)

\* C8: an invocation with a configuration error makes no remote call and
\* ends with exit code 1.
C8_ConfigErrorBeforeRemoteCall ==
    (pc # "idle" /\ ConfigError) =>
        /\ calls = <<>>
        /\ Exited => exitCode = 1

============================================================================
